---- MODULE Spec2Model ----
(***************************************************************************)
(* Sentieon variant callers (bcbio/variation/sentieon.py).                  *)
(*                                                                         *)
(* The three callers run_tnscope, run_tnhaplotyper and run_haplotyper are   *)
(* modelled as processes stepping through the positions of their bodies:    *)
(* existence check, interval resolution, transaction entry, command         *)
(* construction, process run, transaction exit.  license_export and         *)
(* _get_interval are operators computed as the code computes them.          *)
(* Text that the code formats character by character (the license export    *)
(* prefix) is a sequence of one-character strings; command arguments are    *)
(* whitespace separated words, each a string.                               *)
(***************************************************************************)
EXTENDS Integers, Sequences, FiniteSets, TLC

\* Number of concurrent invocations in the concurrent specification.
NumProcs == 2
\* Largest number of entries of a keyfile mapping.
MaxEntries == 2
\* Cap of the counter of do.run calls of one invocation.
MaxRuns == 3

Procs == 1..NumProcs

-----------------------------------------------------------------------------
(* Python values *)

\* str(None), as "%s" % None and "{x}".format(x=None) render it
PyNone == "None"

NoneV == [t |-> "none"]
StrV(s) == [t |-> "str", s |-> s]
DictV(its) == [t |-> "dict", items |-> its]
IntV(n) == [t |-> "int", n |-> n]

\* Python truth value of a configuration value
Truthy(v) ==
    CASE v.t = "none" -> FALSE
      [] v.t = "str"  -> v.s # <<>>
      [] v.t = "dict" -> v.items # <<>>
      [] v.t = "int"  -> v.n # 0

\* dict.get(key): the value, or None for a missing key
Get(d, k) == IF k \in DOMAIN d THEN d[k] ELSE NoneV

EmptyDict == [k \in {} |-> NoneV]

LowerCase == <<"a","b","c","d","e","f","g","h","i","j","k","l","m",
               "n","o","p","q","r","s","t","u","v","w","x","y","z">>
UpperCase == <<"A","B","C","D","E","F","G","H","I","J","K","L","M",
               "N","O","P","Q","R","S","T","U","V","W","X","Y","Z">>

UpperChar(c) ==
    IF \E i \in 1..Len(LowerCase) : LowerCase[i] = c
    THEN UpperCase[CHOOSE i \in 1..Len(LowerCase) : LowerCase[i] = c]
    ELSE c

\* str.upper()
Upper(s) == [i \in 1..Len(s) |-> UpperChar(s[i])]

\* template % args: each %s of the template is replaced by the next argument
RECURSIVE Format(_, _)
Format(tpl, args) ==
    IF tpl = <<>> THEN <<>>
    ELSE IF Len(tpl) >= 2 /\ tpl[1] = "%" /\ tpl[2] = "s"
         THEN Head(args) \o Format(SubSeq(tpl, 3, Len(tpl)), Tail(args))
         ELSE <<tpl[1]>> \o Format(Tail(tpl), args)

-----------------------------------------------------------------------------
(* license_export *)

\* "export SENTIEON_LICENSE=%s && "
LicenseTemplate ==
    <<"e","x","p","o","r","t"," ","S","E","N","T","I","E","O","N","_",
      "L","I","C","E","N","S","E","=","%","s"," ","&","&"," ">>

\* "export %s=%s && "
ExportTemplate ==
    <<"e","x","p","o","r","t"," ","%","s","=","%","s"," ","&","&"," ">>

Returned(v) == [err |-> "", val |-> v]
Raised(e) == [err |-> e, val |-> <<>>]

\* One turn of the loop over server.items(): the key upper-cased, the value as it is
ExportLineUpperBoth(key, val) == Format(ExportTemplate, <<Upper(key), Upper(val)>>)

ExportLine(key, val) == Format(ExportTemplate, <<Upper(key), val>>)

RECURSIVE ExportsLoop(_, _)
ExportsLoop(its, exports) ==
    IF its = <<>> THEN exports
    ELSE ExportsLoop(Tail(its), exports \o ExportLine(its[1][1], its[1][2]))

\* license_export without the test for a missing keyfile: None is formatted
license_export_unchecked(resources) ==
    LET server == Get(resources, "keyfile") IN
    IF server.t = "none" THEN Returned(Format(LicenseTemplate, <<<<"N","o","n","e">>>>))
    ELSE IF server.t = "str" THEN Returned(Format(LicenseTemplate, <<server.s>>))
    ELSE IF server.t = "dict" THEN Returned(ExportsLoop(server.items, <<>>))
    ELSE Raised("AssertionError")

license_export(resources) ==
    LET server == Get(resources, "keyfile") IN
    IF ~Truthy(server) THEN Raised("ValueError")
    ELSE IF server.t = "str" THEN Returned(Format(LicenseTemplate, <<server.s>>))
    ELSE IF server.t = "dict" THEN Returned(ExportsLoop(server.items, <<>>))
    ELSE Raised("AssertionError")

-----------------------------------------------------------------------------
(* Files *)

Absent == [st |-> "absent", by |-> 0]
\* A file written in full by invocation p (0: before any invocation)
Complete(p) == [st |-> "complete", by |-> p]
\* What a process that died left behind
Partial(p) == [st |-> "partial", by |-> p]

ref_file == "/ref/genome.fa"
\* The alignment files, each as (root, extension)
align_bams == << <<"/d/tumor", ".bam">>, <<"/d/normal", ".bam">> >>
PathOf(f) == f[1] \o f[2]

\* utils.splitext_plus: (root, extension)
splitext_plus(f) == f

GivenOut == "/out/calls.vcf.gz"
DerivedOut == splitext_plus(align_bams[1])[1] \o "-variants.vcf.gz"
FinalPaths == {GivenOut, DerivedOut}

\* The temporary path file_transaction hands to invocation p for a final path
TxPath(p, final) == "/tx" \o ToString(p) \o final
TxPaths == {TxPath(p, f) : p \in Procs, f \in FinalPaths}

BedFile == "/r/regions.bed"
MissingBed == "/r/missing.bed"
Paths == FinalPaths \cup TxPaths \cup {BedFile, MissingBed}

\* utils.file_exists
file_exists(files, path) == path \in DOMAIN files /\ files[path].st # "absent"

\* os.path.isfile
isfile(files, path) == path \in DOMAIN files /\ files[path].st # "absent"

-----------------------------------------------------------------------------
(* _get_interval *)

NoTarget == [t |-> "none"]
StrTarget(s) == [t |-> "str", s |-> s]
RegionTarget(c, s, e) == [t |-> "region", chrom |-> c, start |-> s, end |-> e]

TargetTruthy(target) ==
    CASE target.t = "none"   -> FALSE
      [] target.t = "str"    -> target.s # ""
      [] target.t = "region" -> TRUE

\* bamprep.region_to_gatk: chrom:start+1-end for a region, a string as it is
region_to_gatk(target) ==
    IF target.t = "region"
    THEN target.chrom \o ":" \o ToString(target.start + 1) \o "-" \o ToString(target.end)
    ELSE target.s

\* _get_interval without the test for an existing file: every string is a file
_get_interval_any_string(files, target) ==
    IF TargetTruthy(target)
    THEN IF target.t = "str"
         THEN [frag |-> <<"--interval", target.s>>, gatk |-> 0]
         ELSE [frag |-> <<"--interval", region_to_gatk(target)>>, gatk |-> 1]
    ELSE [frag |-> <<>>, gatk |-> 0]

\* The fragment, and the number of calls of region_to_gatk made for it.
\* target is what shared.subset_variant_regions returned.
_get_interval(files, target) ==
    IF TargetTruthy(target)
    THEN IF target.t = "str" /\ isfile(files, target.s)
         THEN [frag |-> <<"--interval", target.s>>, gatk |-> 0]
         ELSE [frag |-> <<"--interval", region_to_gatk(target)>>, gatk |-> 1]
    ELSE [frag |-> <<>>, gatk |-> 0]

-----------------------------------------------------------------------------
(* Pairing *)

UnsetPair == [t |-> "unset", tumor_bam |-> PyNone, tumor_name |-> PyNone,
              normal_bam |-> PyNone, normal_name |-> PyNone]
NonePair == [t |-> "none", tumor_bam |-> PyNone, tumor_name |-> PyNone,
             normal_bam |-> PyNone, normal_name |-> PyNone]

\* vcfutils.get_paired_bams: None without a tumor sample, else the pairing, its
\* normal side None without a normal sample.  its[i] describes bams[i].
get_paired_bams(bams, its) ==
    LET T == {i \in 1..Len(its) : its[i].phenotype = "tumor"}
        N == {i \in 1..Len(its) : its[i].phenotype = "normal"}
        Last(S) == CHOOSE i \in S : \A j \in S : j <= i
    IN IF T = {} THEN NonePair
       ELSE [t |-> "pair",
             tumor_bam |-> PathOf(bams[Last(T)]),
             tumor_name |-> its[Last(T)].name,
             normal_bam |-> IF N = {} THEN PyNone ELSE PathOf(bams[Last(N)]),
             normal_name |-> IF N = {} THEN PyNone ELSE its[Last(N)].name]

\* Truth value of a path-valued attribute
PathTruthy(s) == s # PyNone /\ s # ""

-----------------------------------------------------------------------------
(* Command construction *)

NoCmd == [prefix |-> <<>>, argv |-> <<>>]
Built(pr, lic, c) == [err |-> "", paired |-> pr, license |-> lic, cmd |-> c]
Failed(e, pr) == [err |-> e, paired |-> pr, license |-> <<>>, cmd |-> NoCmd]

AssocPath(assoc, k) == IF k \in DOMAIN assoc THEN assoc[k] ELSE PyNone

\* "--dbsnp %s" whatever the associated files hold
DbsnpFlagAlways(assoc) == <<"--dbsnp", AssocPath(assoc, "dbsnp")>>

DbsnpFlag(assoc) ==
    IF "dbsnp" \in DOMAIN assoc THEN <<"--dbsnp", AssocPath(assoc, "dbsnp")>> ELSE <<>>

CosmicFlag(assoc) ==
    IF "cosmic" \in DOMAIN assoc THEN <<"--cosmic", AssocPath(assoc, "cosmic")>> ELSE <<>>

\* The command's output argument naming the final path
OutputArgFinal(final, tx) == final

\* The last field of the command templates: {tx_out_file}
OutputArg(final, tx) == tx

PairedArgs(pr) == <<"-i", pr.tumor_bam, "-i", pr.normal_bam>>
SampleArgs(pr) == <<"--tumor_sample", pr.tumor_name, "--normal_sample", pr.normal_name>>
Driver == <<"sentieon", "driver", "-t", "1", "-r", ref_file>>

\* The body of run_tnscope's transaction up to the command
TnscopeBody(its, resources, assoc, interval, final, tx) ==
    LET pr == get_paired_bams(align_bams, its) IN
    IF ~(pr.t = "pair" /\ PathTruthy(pr.normal_bam)) THEN Failed("AssertionError", pr)
    ELSE LET dbsnp == DbsnpFlag(assoc)
             lic == license_export(resources)
         IN IF lic.err # "" THEN Failed(lic.err, pr)
            ELSE Built(pr, lic.val,
                       [prefix |-> lic.val,
                        argv |-> Driver \o PairedArgs(pr) \o interval
                                 \o <<"--algo", "TNscope">> \o SampleArgs(pr)
                                 \o dbsnp \o <<OutputArg(final, tx)>>])

\* The body of run_tnhaplotyper's transaction up to the command
TnhaplotyperBody(its, resources, assoc, interval, final, tx) ==
    LET pr == get_paired_bams(align_bams, its) IN
    IF pr.t # "pair" THEN Failed("AttributeError", pr)
    ELSE IF ~PathTruthy(pr.normal_bam) THEN Failed("AssertionError", pr)
    ELSE LET dbsnp == DbsnpFlag(assoc)
             cosmic == CosmicFlag(assoc)
             lic == license_export(resources)
         IN IF lic.err # "" THEN Failed(lic.err, pr)
            ELSE Built(pr, lic.val,
                       [prefix |-> lic.val,
                        argv |-> Driver \o PairedArgs(pr) \o interval
                                 \o <<"--algo", "TNhaplotyper">> \o SampleArgs(pr)
                                 \o dbsnp \o cosmic \o <<OutputArg(final, tx)>>])

RECURSIVE BamArgs(_)
BamArgs(bams) ==
    IF bams = <<>> THEN <<>> ELSE <<"-i", PathOf(Head(bams))>> \o BamArgs(Tail(bams))

\* The body of run_haplotyper's transaction up to the command
HaplotyperBody(its, resources, assoc, interval, final, tx) ==
    LET dbsnp == DbsnpFlag(assoc)
        bams == BamArgs(align_bams)
        lic == license_export(resources)
    IN IF lic.err # "" THEN Failed(lic.err, UnsetPair)
       ELSE Built(UnsetPair, lic.val,
                  [prefix |-> lic.val,
                   argv |-> Driver \o bams \o interval
                            \o <<"--algo", "Haplotyper">>
                            \o dbsnp \o <<OutputArg(final, tx)>>])

-----------------------------------------------------------------------------
(* State *)

VARIABLES
    config,       \* the sentieon resources of items[0]["config"]
    items,        \* the samples' metadata, one per alignment file
    assoc_files,  \* the associated-files mapping
    target,       \* what shared.subset_variant_regions returns for the region inputs
    out_arg,      \* the out_file argument: PyNone or a path
    live,         \* the invocations that run
    fs,           \* the filesystem: path -> file
    pc,           \* each invocation's position
    caller,       \* the function each invocation is of
    out_file,     \* locals of the invocation, PyNone or unbound before assignment
    existed,      \* what utils.file_exists(out_file) answered at the caller's test
    interval,
    gatk_calls,   \* calls of bamprep.region_to_gatk made by the invocation
    tx_out_file,
    paired,
    license,
    cmd,
    runs,         \* calls of do.run made by the invocation
    status,       \* exit status of the invocation's external process, -1 before it exits
    ret,          \* the returned path
    err           \* the exception raised

world == <<config, items, assoc_files, target, out_arg, live>>
locals == <<caller, out_file, existed, interval, gatk_calls, tx_out_file, paired, license, cmd,
            runs, status, ret, err>>
vars == <<world, fs, pc, locals>>

Unbound == [bound |-> FALSE, val |-> <<>>]
Bound(v) == [bound |-> TRUE, val |-> v]

Resting == {"idle", "returned", "raised"}

Sample(ph, n) == [phenotype |-> ph, name |-> n]

\* Keys and values of keyfile mappings, and keyfile strings
KeyChoices == {<<"s","_","l","i","c">>, <<"T","m","p">>, <<"k","2">>}
ValChoices == {<<"8","@","s","r","v">>, <<"/","l",".","k">>}
EntrySeqs ==
    {its \in UNION {[1..n -> KeyChoices \X ValChoices] : n \in 0..MaxEntries} :
        \A i, j \in 1..Len(its) : i # j => its[i][1] # its[j][1]}

KeyfileChoices ==
    {NoneV, StrV(<<>>), StrV(<<"1","@","h",":","9">>), StrV(<<"/","l",".","k">>),
     IntV(0), IntV(7)}
    \cup {DictV(its) : its \in EntrySeqs}

ConfigChoices == {EmptyDict} \cup {[k \in {"keyfile"} |-> v] : v \in KeyfileChoices}

ItemsChoices ==
    {<<Sample("tumor", "T1"), Sample("normal", "N1")>>,
     <<Sample("normal", "N1"), Sample("tumor", "T1")>>,
     <<Sample("tumor", "T1"), Sample("germline", "G1")>>,
     <<Sample("normal", "N1"), Sample("germline", "G1")>>}

AssocChoices ==
    {[k \in K |-> IF k = "dbsnp" THEN "/x/dbsnp.vcf" ELSE "/x/cosmic.vcf"] :
        K \in SUBSET {"dbsnp", "cosmic"}}

TargetChoices ==
    {NoTarget, StrTarget(""), StrTarget(BedFile), StrTarget(MissingBed),
     RegionTarget("chr1", 0, 100)}

\* The files present before any invocation: the region file, and possibly outputs
FsChoices ==
    {[p \in Paths |-> IF p = BedFile \/ p \in E THEN Complete(0) ELSE Absent] :
        E \in SUBSET FinalPaths}

InitLocals ==
    /\ pc = [p \in Procs |-> "idle"]
    /\ caller = [p \in Procs |-> "none"]
    /\ out_file = [p \in Procs |-> PyNone]
    /\ existed = [p \in Procs |-> FALSE]
    /\ interval = [p \in Procs |-> Unbound]
    /\ gatk_calls = [p \in Procs |-> 0]
    /\ tx_out_file = [p \in Procs |-> PyNone]
    /\ paired = [p \in Procs |-> UnsetPair]
    /\ license = [p \in Procs |-> Unbound]
    /\ cmd = [p \in Procs |-> NoCmd]
    /\ runs = [p \in Procs |-> 0]
    /\ status = [p \in Procs |-> -1]
    /\ ret = [p \in Procs |-> PyNone]
    /\ err = [p \in Procs |-> ""]

\* One invocation at a time, over every configuration
Init ==
    /\ config \in ConfigChoices
    /\ items \in ItemsChoices
    /\ assoc_files \in AssocChoices
    /\ target \in TargetChoices
    /\ out_arg \in {PyNone, GivenOut}
    /\ live = {1}
    /\ fs \in FsChoices
    /\ InitLocals

\* Concurrent invocations with the same arguments, hence the same output path
InitConc ==
    /\ config \in {EmptyDict, [k \in {"keyfile"} |-> StrV(<<"1","@","h",":","9">>)]}
    /\ items \in {<<Sample("tumor", "T1"), Sample("normal", "N1")>>,
                  <<Sample("tumor", "T1"), Sample("germline", "G1")>>,
                  <<Sample("normal", "N1"), Sample("germline", "G1")>>}
    /\ assoc_files \in {[k \in {"dbsnp"} |-> "/x/dbsnp.vcf"]}
    /\ target \in {RegionTarget("chr1", 0, 100)}
    /\ out_arg \in {PyNone, GivenOut}
    /\ live = Procs
    /\ fs \in FsChoices
    /\ InitLocals

-----------------------------------------------------------------------------
(* The callers *)

\* Line 54 inverted: work is done when the output is there
ShouldRunInverted(files, path) == file_exists(files, path)

\* if not utils.file_exists(out_file)
ShouldRun(files, path) == ~file_exists(files, path)

\* Entry of a caller: the output path is resolved and tested; an existing output is
\* returned at once
Enter(p, c) ==
    /\ pc[p] \in Resting
    /\ LET out == IF out_arg = PyNone
                  THEN splitext_plus(align_bams[1])[1] \o "-variants.vcf.gz"
                  ELSE out_arg
       IN /\ out_file' = [out_file EXCEPT ![p] = out]
          /\ existed' = [existed EXCEPT ![p] = file_exists(fs, out)]
          /\ IF ShouldRun(fs, out)
             THEN pc' = [pc EXCEPT ![p] = "interval"] /\ ret' = [ret EXCEPT ![p] = PyNone]
             ELSE pc' = [pc EXCEPT ![p] = "returned"] /\ ret' = [ret EXCEPT ![p] = out]
    /\ caller' = [caller EXCEPT ![p] = c]
    /\ interval' = [interval EXCEPT ![p] = Unbound]
    /\ gatk_calls' = [gatk_calls EXCEPT ![p] = 0]
    /\ tx_out_file' = [tx_out_file EXCEPT ![p] = PyNone]
    /\ paired' = [paired EXCEPT ![p] = UnsetPair]
    /\ license' = [license EXCEPT ![p] = Unbound]
    /\ cmd' = [cmd EXCEPT ![p] = NoCmd]
    /\ runs' = [runs EXCEPT ![p] = 0]
    /\ status' = [status EXCEPT ![p] = -1]
    /\ err' = [err EXCEPT ![p] = ""]
    /\ UNCHANGED <<world, fs>>

run_tnscope(p) == Enter(p, "run_tnscope")
run_tnhaplotyper(p) == Enter(p, "run_tnhaplotyper")
run_haplotyper(p) == Enter(p, "run_haplotyper")

\* variant_regions and interval are resolved
ResolveInterval(p) ==
    /\ pc[p] = "interval"
    /\ LET r == _get_interval(fs, target)
       IN /\ interval' = [interval EXCEPT ![p] = Bound(r.frag)]
          /\ gatk_calls' = [gatk_calls EXCEPT ![p] = @ + r.gatk]
    /\ pc' = [pc EXCEPT ![p] = "transaction"]
    /\ UNCHANGED <<world, fs, caller, out_file, existed, tx_out_file, paired, license, cmd,
                   runs, status, ret, err>>

\* with file_transaction(items[0], out_file) as tx_out_file
EnterTransaction(p) ==
    /\ pc[p] = "transaction"
    /\ tx_out_file' = [tx_out_file EXCEPT ![p] = TxPath(p, out_file[p])]
    /\ pc' = [pc EXCEPT ![p] = "body"]
    /\ UNCHANGED <<world, fs, caller, out_file, existed, interval, gatk_calls, paired, license,
                   cmd, runs, status, ret, err>>

Body(p) ==
    CASE caller[p] = "run_tnscope" ->
            TnscopeBody(items, config, assoc_files, interval[p].val,
                        out_file[p], tx_out_file[p])
      [] caller[p] = "run_tnhaplotyper" ->
            TnhaplotyperBody(items, config, assoc_files, interval[p].val,
                             out_file[p], tx_out_file[p])
      [] caller[p] = "run_haplotyper" ->
            HaplotyperBody(items, config, assoc_files, interval[p].val,
                           out_file[p], tx_out_file[p])

\* The statements of the with block before do.run: pairing, flags, license, command.
\* An exception leaves the block.
BuildCommand(p) ==
    /\ pc[p] = "body"
    /\ LET b == Body(p)
       IN /\ paired' = [paired EXCEPT ![p] = b.paired]
          /\ license' = [license EXCEPT ![p] = IF b.err = "" THEN Bound(b.license)
                                                ELSE Unbound]
          /\ cmd' = [cmd EXCEPT ![p] = b.cmd]
          /\ err' = [err EXCEPT ![p] = b.err]
          /\ pc' = [pc EXCEPT ![p] = IF b.err = "" THEN "run" ELSE "abort"]
    /\ UNCHANGED <<world, fs, caller, out_file, existed, interval, gatk_calls, tx_out_file,
                   runs, status, ret>>

\* A failed run is tried again
AfterRunRetry(code) == IF code = 0 THEN "commit" ELSE "run"

\* The exception of a failed run is swallowed
AfterRunSwallow(code) == "commit"

\* do.run returns on exit status zero and raises otherwise: the with block is left
\* normally or by the exception
AfterRun(code) == IF code = 0 THEN "commit" ELSE "abort"

\* do.run(cmd): the external process writes the file its last argument names and
\* exits; on a failure it leaves part of the file or nothing
DoRun(p) ==
    /\ pc[p] = "run"
    /\ runs[p] < MaxRuns
    /\ \E code \in {0, 1} :
         LET out == cmd[p].argv[Len(cmd[p].argv)] IN
         /\ status' = [status EXCEPT ![p] = code]
         /\ \E written \in IF code = 0 THEN {Complete(p)} ELSE {Partial(p), fs[out]} :
               fs' = [fs EXCEPT ![out] = written]
         /\ err' = [err EXCEPT ![p] = IF code = 0 THEN "" ELSE "CalledProcessError"]
         /\ pc' = [pc EXCEPT ![p] = AfterRun(code)]
    /\ runs' = [runs EXCEPT ![p] = @ + 1]
    /\ UNCHANGED <<world, caller, out_file, existed, interval, gatk_calls, tx_out_file, paired,
                   license, cmd, ret>>

\* Normal exit of file_transaction: the temporary file, if there is one, is renamed
\* to the final path in one step; then return out_file
ExitTransaction(p) ==
    /\ pc[p] = "commit"
    /\ fs' = IF file_exists(fs, tx_out_file[p])
             THEN [fs EXCEPT ![out_file[p]] = fs[tx_out_file[p]],
                             ![tx_out_file[p]] = Absent]
             ELSE fs
    /\ ret' = [ret EXCEPT ![p] = out_file[p]]
    /\ pc' = [pc EXCEPT ![p] = "returned"]
    /\ UNCHANGED <<world, caller, out_file, existed, interval, gatk_calls, tx_out_file, paired,
                   license, cmd, runs, status, err>>

\* Exit of file_transaction by an exception: the temporary file is removed and the
\* exception propagates out of the caller
AbortTransaction(p) ==
    /\ pc[p] = "abort"
    /\ fs' = [fs EXCEPT ![tx_out_file[p]] = Absent]
    /\ pc' = [pc EXCEPT ![p] = "raised"]
    /\ UNCHANGED <<world, caller, out_file, existed, interval, gatk_calls, tx_out_file, paired,
                   license, cmd, runs, status, ret, err>>

Next ==
    \/ \E p \in live : run_tnscope(p)
    \/ \E p \in live : run_tnhaplotyper(p)
    \/ \E p \in live : run_haplotyper(p)
    \/ \E p \in live : ResolveInterval(p)
    \/ \E p \in live : EnterTransaction(p)
    \/ \E p \in live : BuildCommand(p)
    \/ \E p \in live : DoRun(p)
    \/ \E p \in live : ExitTransaction(p)
    \/ \E p \in live : AbortTransaction(p)

Spec == Init /\ [][Next]_vars
SpecConc == InitConc /\ [][Next]_vars

-----------------------------------------------------------------------------
(* Properties *)

ResolvedOut == IF out_arg = PyNone THEN DerivedOut ELSE out_arg
Finished(p) == pc[p] \in {"returned", "raised"}
Keyfile == Get(config, "keyfile")
PairedCallers == {"run_tnscope", "run_tnhaplotyper"}
Pairing == get_paired_bams(align_bams, items)
NormalDerivable == Pairing.t = "pair" /\ PathTruthy(Pairing.normal_bam)
Words(c) == {c.argv[i] : i \in 1..Len(c.argv)}
\* word flag is in the command, directly followed by word v
HasFlag(c, flag, v) ==
    \E i \in 1..(Len(c.argv) - 1) : c.argv[i] = flag /\ c.argv[i + 1] = v
ExportWord == <<"e","x","p","o","r","t"," ">>
Separator == <<" ","&","&"," ">>
EndsWith(s, suffix) ==
    Len(s) >= Len(suffix) /\ SubSeq(s, Len(s) - Len(suffix) + 1, Len(s)) = suffix
RECURSIVE ConcatAll(_)
ConcatAll(ss) == IF ss = <<>> THEN <<>> ELSE Head(ss) \o ConcatAll(Tail(ss))

\* C1: in each of the three callers, when the resolved output path (the out_file
\* given, or the one derived from the first alignment) exists at the caller's test,
\* the call returns that path, and it has called no process runner, opened no
\* transaction, and made no pairing or license check; the file is left as it was.
C1_ExistingOutputSkipsWork ==
    \A p \in live :
        (pc[p] # "idle" /\ existed[p]) =>
            /\ pc[p] = "returned"
            /\ out_file[p] = ResolvedOut
            /\ ret[p] = out_file[p]
            /\ runs[p] = 0 /\ status[p] = -1
            /\ tx_out_file[p] = PyNone
            /\ paired[p] = UnsetPair
            /\ ~license[p].bound
            /\ cmd[p] = NoCmd
            /\ file_exists(fs, out_file[p])

C1_Witness ==
    \E p \in live :
        /\ existed[p] /\ pc[p] = "returned" /\ ret[p] = DerivedOut
        /\ caller[p] = "run_tnscope" /\ fs[DerivedOut] = Complete(0)

\* C2: in each of the three callers, when the output path is absent at the test and
\* the external process exits non-zero, the call raises the runner's error and
\* returns no path, the transaction removes the temporary file, and the final
\* output path does not exist afterwards.
C2_FailedRunLeavesNoOutput ==
    \A p \in live :
        (status[p] # -1 /\ status[p] # 0) =>
            /\ ~existed[p]
            /\ pc[p] \in {"abort", "raised"}
            /\ err[p] = "CalledProcessError"
            /\ ret[p] = PyNone
            /\ ~file_exists(fs, out_file[p])
            /\ pc[p] = "raised" => ~file_exists(fs, tx_out_file[p])

C2_Witness ==
    \E p \in live :
        /\ pc[p] = "raised" /\ status[p] = 1 /\ caller[p] = "run_haplotyper"
        /\ ~file_exists(fs, out_file[p]) /\ ~file_exists(fs, tx_out_file[p])

\* C3 as stated: with concurrent invocations on one output path, once the final path
\* exists no invocation runs the external process for it or replaces it (at most one
\* invocation publishes).
C3_AtMostOnePublication ==
    [][\A f \in FinalPaths :
          file_exists(fs, f) =>
              /\ fs'[f] = fs[f]
              /\ \A p \in Procs : out_file[p] = f => runs'[p] <= runs[p]]_vars

\* C3 amended: an invocation whose existence test comes after the final path has
\* been published does no work; the final path changes only by the promotion of a
\* complete temporary file, by an invocation whose test found the path absent; a
\* published file is never removed or left partial.  Invocations whose tests came
\* before the publication may each still run and replace the file.
C3_NoWorkStartsAfterPublication ==
    [][/\ \A p \in Procs :
              (pc[p] \in Resting /\ file_exists(fs, ResolvedOut)) => pc'[p] \in Resting
       /\ \A f \in FinalPaths :
              /\ fs'[f] # fs[f] =>
                    \E p \in Procs :
                        /\ pc[p] = "commit" /\ pc'[p] = "returned"
                        /\ out_file[p] = f /\ ~existed[p]
                        /\ fs'[f] = Complete(p)
              /\ file_exists(fs, f) => fs'[f].st = "complete"]_vars

C3_Witness ==
    \E p, q \in live :
        /\ p # q
        /\ fs[ResolvedOut] = Complete(q) /\ pc[q] = "returned"
        /\ existed[p] /\ pc[p] = "returned" /\ ret[p] = ResolvedOut

\* C4 as stated: in each caller, with the output absent and no keyfile (missing or
\* empty), the call fails with license_export's configuration error, before any
\* call of the process runner, and no final output is produced.
C4_NoKeyfileIsConfigurationError ==
    \A p \in live :
        (Finished(p) /\ ~existed[p] /\ ~Truthy(Keyfile)) =>
            /\ pc[p] = "raised" /\ err[p] = "ValueError"
            /\ runs[p] = 0
            /\ ~file_exists(fs, out_file[p])

\* C4 amended: with the output absent and no keyfile the process runner is never
\* called, the call raises, and no final output is produced; the error is
\* license_export's configuration error in run_haplotyper, and in the paired callers
\* when a pairing with a normal alignment is derivable.  The paired callers check
\* the pairing first, so without a normal alignment they raise the pairing's error.
C4_NoKeyfileNeverRuns ==
    \A p \in live :
        (Finished(p) /\ ~existed[p] /\ ~Truthy(Keyfile)) =>
            /\ pc[p] = "raised"
            /\ runs[p] = 0 /\ status[p] = -1 /\ cmd[p] = NoCmd
            /\ ~license[p].bound
            /\ ~file_exists(fs, out_file[p])
            /\ (caller[p] = "run_haplotyper" \/ NormalDerivable) => err[p] = "ValueError"
            /\ (caller[p] \in PairedCallers /\ ~NormalDerivable) =>
                   err[p] \in {"AssertionError", "AttributeError"}

C4_Witness ==
    \E p \in live :
        /\ pc[p] = "raised" /\ err[p] = "ValueError" /\ caller[p] = "run_tnscope"
        /\ Keyfile = StrV(<<>>) /\ paired[p].t = "pair"

\* C5: in run_tnscope and run_tnhaplotyper, with the output absent and a pairing
\* that is None or has no normal alignment, the call fails with the 'Require normal
\* BAM' assertion, the process runner is never called, and no final output exists
\* afterwards.
C5_MissingNormalIsAssertion ==
    \A p \in live :
        (Finished(p) /\ ~existed[p] /\ caller[p] \in PairedCallers /\ ~NormalDerivable) =>
            /\ pc[p] = "raised" /\ err[p] = "AssertionError"
            /\ runs[p] = 0
            /\ ~file_exists(fs, out_file[p])

\* C6: in an invocation whose output is absent at the test, the command's output
\* argument is the transaction's temporary path and never the final path; a final
\* path comes to exist only by promotion of the temporary file after the process
\* exited with status zero; after such an exit the call returns the final path and
\* the path exists.
C6_Inv ==
    \A p \in live :
        /\ cmd[p] # NoCmd =>
              /\ cmd[p].argv[Len(cmd[p].argv)] = tx_out_file[p]
              /\ tx_out_file[p] = TxPath(p, out_file[p])
              /\ out_file[p] \notin Words(cmd[p])
              /\ tx_out_file[p] \notin FinalPaths
        /\ (pc[p] = "returned" /\ ~existed[p]) =>
              /\ status[p] = 0 /\ runs[p] = 1
              /\ ret[p] = out_file[p]
              /\ fs[out_file[p]] = Complete(p)
              /\ ~file_exists(fs, tx_out_file[p])
        /\ (status[p] = 0 /\ Finished(p)) => pc[p] = "returned"

C6_OutputOnlyByPromotion ==
    /\ []C6_Inv
    /\ [][\A f \in FinalPaths :
            (~file_exists(fs, f) /\ file_exists(fs', f)) =>
                \E p \in live :
                    /\ pc[p] = "commit" /\ pc'[p] = "returned"
                    /\ status[p] = 0 /\ out_file[p] = f
                    /\ fs[tx_out_file[p]] = Complete(p)
                    /\ fs'[f] = fs[tx_out_file[p]]]_vars

C6_Witness ==
    \E p \in live :
        /\ pc[p] = "returned" /\ ~existed[p] /\ status[p] = 0
        /\ fs[out_file[p]] = Complete(p) /\ out_file[p] = GivenOut

\* C7: license_export's result depends on the keyfile only: for a non-empty string s
\* it is "export SENTIEON_LICENSE=" s " && "; for a non-empty mapping it is, entry by
\* entry in iteration order, "export " KEY "=" value " && " with the key upper-cased
\* and the value unchanged; it is never empty and ends with " && ".
C7_LicenseFragment ==
    \A p \in live :
        license[p].bound =>
            LET lic == license[p].val
                entry(kv) == ExportWord \o Upper(kv[1]) \o <<"=">> \o kv[2] \o Separator
            IN /\ Keyfile.t \in {"str", "dict"}
               /\ Keyfile.t = "str" =>
                     lic = ExportWord \o <<"S","E","N","T","I","E","O","N","_",
                                           "L","I","C","E","N","S","E","=">>
                                      \o Keyfile.s \o Separator
               /\ Keyfile.t = "dict" =>
                     lic = ConcatAll([i \in 1..Len(Keyfile.items) |->
                                         entry(Keyfile.items[i])])
               /\ lic # <<>>
               /\ EndsWith(lic, Separator)
               /\ cmd[p].prefix = lic

C7_Witness ==
    \E p \in live :
        /\ license[p].bound /\ Keyfile.t = "dict" /\ Len(Keyfile.items) = 2
        /\ Upper(Keyfile.items[1][1]) # Keyfile.items[1][1]
        /\ Upper(Keyfile.items[2][2]) # Keyfile.items[2][2]

\* C8: _get_interval returns the empty fragment for a falsy result of the region
\* subsetting, "--interval <path>" for a string naming an existing file, and
\* "--interval <formatted>" with the region formatter's output otherwise, a string
\* that names no existing file included; the formatter is called in that last case
\* only.
C8_IntervalFragment ==
    \A p \in live :
        interval[p].bound =>
            LET frag == interval[p].val
                falsy == target.t = "none" \/ (target.t = "str" /\ target.s = "")
                file == target.t = "str" /\ ~falsy /\ fs[target.s].st # "absent"
            IN /\ falsy => (frag = <<>> /\ gatk_calls[p] = 0)
               /\ file => (frag = <<"--interval", target.s>> /\ gatk_calls[p] = 0)
               /\ (~falsy /\ ~file) =>
                     (frag = <<"--interval", region_to_gatk(target)>> /\ gatk_calls[p] = 1)

C8_Witness ==
    \E p \in live :
        /\ interval[p].bound /\ target = StrTarget(MissingBed)
        /\ gatk_calls[p] = 1 /\ interval[p].val = <<"--interval", MissingBed>>

\* C9: the command of each caller has "--dbsnp <path>" exactly when the associated
\* files have the key dbsnp, <path> its value; "--cosmic <path>" exactly when the
\* caller is run_tnhaplotyper and the key cosmic is there; a missing key leaves the
\* flag out and raises nothing.
C9_AnnotationFlags ==
    \A p \in live :
        /\ cmd[p] # NoCmd =>
              /\ "--dbsnp" \in Words(cmd[p]) <=> "dbsnp" \in DOMAIN assoc_files
              /\ "dbsnp" \in DOMAIN assoc_files =>
                    HasFlag(cmd[p], "--dbsnp", assoc_files["dbsnp"])
              /\ "--cosmic" \in Words(cmd[p]) <=>
                    (caller[p] = "run_tnhaplotyper" /\ "cosmic" \in DOMAIN assoc_files)
              /\ "--cosmic" \in Words(cmd[p]) =>
                    HasFlag(cmd[p], "--cosmic", assoc_files["cosmic"])
              /\ PyNone \notin Words(cmd[p])
        /\ (pc[p] \in {"run", "commit", "abort", "raised"} /\ ~existed[p]) =>
              /\ err[p] \notin {"KeyError", "TypeError"}
              /\ (cmd[p] = NoCmd) <=>
                    \/ caller[p] \in PairedCallers /\ ~NormalDerivable
                    \/ license_export(config).err # ""

C9_Witness ==
    \E p \in live :
        /\ caller[p] = "run_tnhaplotyper" /\ cmd[p] # NoCmd
        /\ DOMAIN assoc_files = {"dbsnp"}
        /\ HasFlag(cmd[p], "--dbsnp", "/x/dbsnp.vcf") /\ "--cosmic" \notin Words(cmd[p])

\* C10 as stated: every invocation of a caller calls the process runner exactly once.
C10_ExactlyOneRun ==
    \A p \in live : Finished(p) => runs[p] = 1

\* C10 amended: an invocation calls the process runner at most once and never again
\* after a failure; it calls it exactly once when its output was absent at the test
\* and the pairing and license checks passed, and it has the exit status when it
\* ends; it calls it not at all when the output existed or a check failed.
C10_AtMostOneRun ==
    \A p \in live :
        /\ runs[p] <= 1
        /\ Finished(p) =>
              /\ runs[p] = 1 <=> (~existed[p] /\ cmd[p] # NoCmd)
              /\ runs[p] = 1 <=> status[p] # -1
              /\ (pc[p] = "raised" /\ err[p] = "CalledProcessError") => runs[p] = 1
        /\ pc[p] = "run" => runs[p] = 0

C10_Witness ==
    \E p \in live :
        /\ pc[p] = "raised" /\ err[p] = "CalledProcessError" /\ runs[p] = 1
        /\ caller[p] = "run_tnhaplotyper"

====
